---------------------------- MODULE Spec2Model ----------------------------
(***************************************************************************)
(* A model of the ACB ledger engine of crypto-tax-calculator               *)
(* (src/src/capital-gains-calculate-stream.js).                            *)
(*                                                                         *)
(* Numbers.  The program computes with JavaScript numbers.  Amounts,       *)
(* balances, values and fee values are integers of an arbitrary unit in    *)
(* this model; the adjusted cost base (acb) and everything derived from a  *)
(* division are exact rationals [n, d] in lowest terms with d > 0.         *)
(* Rounding of IEEE doubles is therefore not part of the model.            *)
(***************************************************************************)
EXTENDS Integers, Sequences, FiniteSets, TLC

---------------------------------------------------------------------------
(* Exact rational arithmetic, standing for the JavaScript operators        *)
(* +, -, * and / on numbers.                                               *)

Abs(x) == IF x < 0 THEN -x ELSE x

RECURSIVE GCD(_, _)
GCD(a, b) == IF b = 0 THEN a ELSE GCD(b, a % b)

Sign(x) == IF x < 0 THEN -1 ELSE IF x > 0 THEN 1 ELSE 0

\* The rational n/d in lowest terms with a positive denominator.  A zero
\* denominator gives the values a JavaScript division by zero gives:
\* [n |-> 1, d |-> 0] is Infinity, [n |-> -1, d |-> 0] is -Infinity and
\* [n |-> 0, d |-> 0] is NaN.
Rat(n, d) ==
    IF d = 0 THEN [n |-> Sign(n), d |-> 0]
    ELSE LET g == GCD(Abs(n), Abs(d))
             s == IF d < 0 THEN -1 ELSE 1
         IN  [n |-> (s * n) \div g, d |-> (s * d) \div g]

\* A number that is neither NaN nor infinite.
Finite(a) == a.d > 0

RI(i) == [n |-> i, d |-> 1]
Zero == RI(0)
RAdd(a, b) == Rat(a.n * b.d + b.n * a.d, a.d * b.d)
RNeg(a) == [n |-> -a.n, d |-> a.d]
RSub(a, b) == RAdd(a, RNeg(b))
RMul(a, b) == Rat(a.n * b.n, a.d * b.d)
RDiv(a, b) == Rat(a.n * b.d, a.d * b.n)

---------------------------------------------------------------------------
(* Bounds and the sets the inputs are drawn from.                          *)

\* The number of transactions written to the stream before it ends.
MaxTx == 2

Assets == {"BTC", "ETH"}
Exchanges == {"kraken"}
Amounts == {-2, -1, 0, 1}
\* The value and the fee value of a transaction, in the reporting currency.
Prices == {[value |-> 6, feeValue |-> 0], [value |-> 1, feeValue |-> 1]}
\* A transaction that carries no fee has neither feeAsset nor feeAmount
\* (both undefined in the program, falsy for the test of line 137).
NoAsset == "undefined"
NoFee == [feeAsset |-> NoAsset, feeAmount |-> 0]
Fees == {NoFee} \cup [feeAsset : Assets, feeAmount : {1}]

\* No price is being looked up in a series of the history.
NoLookup == << >>

\* TradeParseStream, lines 44-60: no record is written yet, _tradeChunks
\* is empty and no trade is pushed.
NoRecords == [records |-> << >>, tradeChunks |-> << >>, pushed |-> << >>]

\* The option forwardByAsset handed to the constructor.
NoForward == << >>
ForwardSeeds ==
    { NoForward,
      "BTC" :> [balance |-> 2, acb |-> RI(10)],
      ("BTC" :> [balance |-> 2, acb |-> RI(10)]) @@ ("ETH" :> [balance |-> 1, acb |-> RI(4)]) }

---------------------------------------------------------------------------
VARIABLES
    forwardByAsset,             \* this._forwardByAsset
    trades,                     \* this._trades
    ledgerByAsset,              \* this._ledgerByAsset
    assetsWithNegativeBalance,  \* this._assetsWithNegativeBalance
    writableEnded,              \* the writable side has ended: _final has run
    pushed,                     \* the objects pushed downstream by _final
    negativeBalanceByAsset,     \* the negative balances the report reads
    opts,                       \* main: the command-line options
    source,                     \* main: the trades the merged source has emitted
    filtered,                   \* the trades written to the trade value stream
    valued,                     \* the trades written to the trade transactions stream
    transactions,               \* the transactions written to the calculate stream
    rejected,                   \* the trade value stream has thrown
    formatted,                  \* the reports the format stream has written
    lookup,                     \* a price looked up in a series of the history
    tradeParse                  \* the trade parse stream: the records written to
                                \* it, its _tradeChunks and the trades it has pushed

\* The state of the calculate stream and the state of the streams that main
\* pipes into it.
streamVars == <<forwardByAsset, trades, ledgerByAsset, assetsWithNegativeBalance,
                writableEnded, pushed, negativeBalanceByAsset>>
mainVars == <<opts, source, filtered, valued, transactions, rejected, formatted, lookup, tradeParse>>
vars == <<streamVars, mainVars>>

---------------------------------------------------------------------------
(* constructor                                                             *)

\* The ledger of an asset carried forward from last year (lines 84-88).
ForwardLedger(forward) ==
    [acb |-> forward.acb, balance |-> forward.balance, dispositions |-> << >>]

\* The ledger of an asset seen for the first time (lines 104-108).
NewLedger == [acb |-> Zero, balance |-> 0, dispositions |-> << >>]

\* A value of the program handed over as options.forwardByAsset: a plain
\* object, a Map or undefined, with the entries it holds.
PlainObject(entries) == [type |-> "object", entries |-> entries]
MapObject(entries) == [type |-> "Map", entries |-> entries]
Undefined == [type |-> "undefined", entries |-> << >>]

\* line 60: Object.entries(value), the own enumerable properties of the
\* value.  The entries of a Map are not properties of it: a Map has none.
ObjectEntries(value) ==
    IF value.type = "object" THEN value.entries ELSE << >>

\* lines 59-61: the assets to carry forward, read off the option.
ForwardOf(options) ==
    IF options.forwardByAsset.type # "undefined"
    THEN ObjectEntries(options.forwardByAsset)
    ELSE << >>

\* lines 82-90: the ledger of every asset carried forward.
ForwardLedgers(forward) ==
    [asset \in DOMAIN forward |-> ForwardLedger(forward[asset])]

\* lines 48-91: the state of the stream constructed with the options.
Constructor(options) ==
    /\ forwardByAsset = ForwardOf(options)
    /\ trades = << >>
    /\ ledgerByAsset = ForwardLedgers(forwardByAsset)
    /\ assetsWithNegativeBalance = {}
    /\ writableEnded = FALSE
    /\ pushed = << >>
    /\ negativeBalanceByAsset = << >>

\* The stream on its own: constructed with a plain object, as its
\* documentation asks (line 46), and written to directly.
Init ==
    /\ \E seed \in ForwardSeeds :
          Constructor([forwardByAsset |-> IF seed = NoForward THEN Undefined
                                          ELSE PlainObject(seed)])
    /\ opts = [init |-> << >>, assets |-> << >>, show |-> << >>]
    /\ source = << >>
    /\ filtered = << >>
    /\ valued = << >>
    /\ transactions = << >>
    /\ rejected = FALSE
    /\ formatted = << >>
    /\ lookup = NoLookup
    /\ tradeParse = NoRecords

---------------------------------------------------------------------------
(* _transform                                                              *)

\* lines 102-108: the ledger of the asset, created on first reference.
GetOrCreate(store, asset) ==
    IF asset \in DOMAIN store THEN store ELSE store @@ (asset :> NewLedger)

\* AcbPerUnit that takes the whole cost base of the ledger for one unit.
AcbPerUnitIsTheAcb(ledger) == ledger.acb

\* AcbPerUnit without the test of the balance.
AcbPerUnitUnguarded(ledger) == RDiv(ledger.acb, RI(ledger.balance))

\* lines 115, 140: ledger.balance ? ledger.acb / ledger.balance : 0
AcbPerUnit(ledger) ==
    IF ledger.balance # 0 THEN RDiv(ledger.acb, RI(ledger.balance)) ELSE Zero

\* Disposition with a gain that leaves the outlays and expenses out.
DispositionIgnoresFee(ledger, chunk) ==
    LET acb == RMul(RI(-chunk.amount), AcbPerUnit(ledger))
    IN  [exchange |-> chunk.exchange,
         amount   |-> -chunk.amount,
         pod      |-> chunk.value,
         oae      |-> chunk.feeValue,
         time     |-> chunk.time,
         acb      |-> acb,
         gain     |-> RSub(RI(chunk.value), acb)]

\* lines 117-125: the disposition of a transaction with a negative amount.
Disposition(ledger, chunk) ==
    LET acbPerUnit == AcbPerUnit(ledger)
        amount == -chunk.amount
        acb == RMul(RI(amount), acbPerUnit)
    IN  [exchange |-> chunk.exchange,
         amount   |-> amount,
         pod      |-> chunk.value,
         oae      |-> chunk.feeValue,
         time     |-> chunk.time,
         acb      |-> acb,
         gain     |-> RSub(RSub(RI(chunk.value), acb), RI(chunk.feeValue))]

\* ApplyAmount with a disposal that leaves the acb of the ledger alone.
ApplyAmountKeepsAcb(ledger, chunk) ==
    IF chunk.amount < 0
    THEN [acb |-> ledger.acb,
          balance |-> ledger.balance + chunk.amount,
          dispositions |-> Append(ledger.dispositions,
              LET acb == RMul(RI(-chunk.amount), AcbPerUnit(ledger))
              IN  [exchange |-> chunk.exchange, amount |-> -chunk.amount,
                   pod |-> chunk.value, oae |-> chunk.feeValue, time |-> chunk.time,
                   acb |-> acb,
                   gain |-> RSub(RSub(RI(chunk.value), acb), RI(chunk.feeValue))])]
    ELSE [acb |-> RAdd(ledger.acb, RI(chunk.value + chunk.feeValue)),
          balance |-> ledger.balance + chunk.amount,
          dispositions |-> ledger.dispositions]

\* ApplyAmount with an acquisition that expenses the fee instead of adding
\* it to the cost base.
ApplyAmountExpensesFee(ledger, chunk) ==
    IF chunk.amount < 0
    THEN [acb |-> RAdd(ledger.acb, RMul(AcbPerUnit(ledger), RI(chunk.amount))),
          balance |-> ledger.balance + chunk.amount,
          dispositions |-> Append(ledger.dispositions,
              LET acb == RMul(RI(-chunk.amount), AcbPerUnit(ledger))
              IN  [exchange |-> chunk.exchange, amount |-> -chunk.amount,
                   pod |-> chunk.value, oae |-> chunk.feeValue, time |-> chunk.time,
                   acb |-> acb,
                   gain |-> RSub(RSub(RI(chunk.value), acb), RI(chunk.feeValue))])]
    ELSE [acb |-> RAdd(ledger.acb, RI(chunk.value)),
          balance |-> ledger.balance + chunk.amount,
          dispositions |-> ledger.dispositions]

\* ApplyAmount with a disposal that puts its disposition in front of those
\* of the ledger.
ApplyAmountPrependsDisposition(ledger, chunk) ==
    IF chunk.amount < 0
    THEN [acb |-> RAdd(ledger.acb, RMul(AcbPerUnit(ledger), RI(chunk.amount))),
          balance |-> ledger.balance + chunk.amount,
          dispositions |-> <<Disposition(ledger, chunk)>> \o ledger.dispositions]
    ELSE [acb |-> RAdd(ledger.acb, RI(chunk.value + chunk.feeValue)),
          balance |-> ledger.balance + chunk.amount,
          dispositions |-> ledger.dispositions]

\* ApplyAmount that never lets a balance fall below 0.
ApplyAmountClampsAtZero(ledger, chunk) ==
    LET balance == ledger.balance + chunk.amount
    IN  IF chunk.amount < 0
        THEN [acb |-> RAdd(ledger.acb, RMul(AcbPerUnit(ledger), RI(chunk.amount))),
              balance |-> IF balance < 0 THEN 0 ELSE balance,
              dispositions |-> Append(ledger.dispositions, Disposition(ledger, chunk))]
        ELSE [acb |-> RAdd(ledger.acb, RI(chunk.value + chunk.feeValue)),
              balance |-> balance,
              dispositions |-> ledger.dispositions]

\* lines 110-134: the disposal or the acquisition, then the balance.
ApplyAmount(ledger, chunk) ==
    IF chunk.amount < 0
    THEN [acb |-> RAdd(ledger.acb, RMul(AcbPerUnit(ledger), RI(chunk.amount))),
          balance |-> ledger.balance + chunk.amount,
          dispositions |-> Append(ledger.dispositions, Disposition(ledger, chunk))]
    ELSE [acb |-> RAdd(ledger.acb, RI(chunk.value + chunk.feeValue)),
          balance |-> ledger.balance + chunk.amount,
          dispositions |-> ledger.dispositions]

\* The fee ledger after a settlement that takes the given acb and balance.
Settled(store, chunk, acb, balance) ==
    [store EXCEPT ![chunk.feeAsset] =
        [acb |-> acb, balance |-> balance,
         dispositions |-> store[chunk.feeAsset].dispositions]]

\* SettleFee that reduces the acb of the fee ledger but not its balance.
SettleFeeKeepsBalance(store, chunk) ==
    IF chunk.feeAmount # 0 /\ chunk.feeAsset \in DOMAIN store
    THEN LET feeLedger == store[chunk.feeAsset]
         IN  Settled(store, chunk,
                     RSub(feeLedger.acb, RMul(AcbPerUnit(feeLedger), RI(chunk.feeAmount))),
                     feeLedger.balance)
    ELSE store

\* SettleFee that reduces the balance of the fee ledger but not its acb.
SettleFeeKeepsAcb(store, chunk) ==
    IF chunk.feeAmount # 0 /\ chunk.feeAsset \in DOMAIN store
    THEN LET feeLedger == store[chunk.feeAsset]
         IN  Settled(store, chunk, feeLedger.acb, feeLedger.balance - chunk.feeAmount)
    ELSE store

\* SettleFee that takes the fee from the ledger of the traded asset,
\* whatever the fee asset.
SettleFeeFromTradedAsset(store, chunk) ==
    IF chunk.feeAmount # 0
    THEN LET ledger == store[chunk.asset]
         IN  [store EXCEPT ![chunk.asset] =
                [acb |-> RSub(ledger.acb, RMul(AcbPerUnit(ledger), RI(chunk.feeAmount))),
                 balance |-> ledger.balance - chunk.feeAmount,
                 dispositions |-> ledger.dispositions]]
    ELSE store

\* SettleFee that creates the ledger of a fee asset that has none.
SettleFeeCreatesLedger(store, chunk) ==
    IF chunk.feeAmount # 0
    THEN LET created == GetOrCreate(store, chunk.feeAsset)
             feeLedger == created[chunk.feeAsset]
         IN  Settled(created, chunk,
                     RSub(feeLedger.acb, RMul(AcbPerUnit(feeLedger), RI(chunk.feeAmount))),
                     feeLedger.balance - chunk.feeAmount)
    ELSE store

\* lines 137-144: remove the transaction fee from the balance of the fee asset.
SettleFee(store, chunk) ==
    IF chunk.feeAmount # 0 /\ chunk.feeAsset \in DOMAIN store
    THEN LET feeLedger == store[chunk.feeAsset]
             feeAcbPerUnit == AcbPerUnit(feeLedger)
         IN  [store EXCEPT ![chunk.feeAsset] =
                [acb |-> RSub(feeLedger.acb, RMul(feeAcbPerUnit, RI(chunk.feeAmount))),
                 balance |-> feeLedger.balance - chunk.feeAmount,
                 dispositions |-> feeLedger.dispositions]]
    ELSE store

\* lines 102-144: the ledger store after the transaction.
ApplyTransaction(store, chunk) ==
    LET created == GetOrCreate(store, chunk.asset)
        applied == [created EXCEPT ![chunk.asset] = ApplyAmount(created[chunk.asset], chunk)]
    IN  SettleFee(applied, chunk)

\* BelowTolerance with a threshold a whole unit lower.
BelowToleranceByAUnit(balance) == balance < -1

\* line 150: ledger.balance < -0.000000005.  Balances are whole units here,
\* so a balance is below the tolerance exactly when it is below zero.
BelowTolerance(balance) == balance < 0

\* The negative balances after a transaction that leaves the asset with the
\* balance: the first crossing records first and minimum, a later one
\* lowers minimum when the balance is lower than the one stored.
RecordNegativeBalance(records, asset, balance, time) ==
    LET crossing == [balance |-> balance, time |-> time]
    IN  IF ~BelowTolerance(balance) THEN records
        ELSE IF asset \notin DOMAIN records
        THEN records @@ (asset :> [first |-> crossing, minimum |-> crossing])
        ELSE IF balance < records[asset].minimum.balance
        THEN [records EXCEPT ![asset].minimum = crossing]
        ELSE records

\* The transactions the upstream can write: they arrive in the order of
\* their time.
Chunks ==
    { [exchange |-> e, asset |-> a, amount |-> m, value |-> p.value,
       time |-> Len(trades) + 1, feeValue |-> p.feeValue,
       feeAsset |-> f.feeAsset, feeAmount |-> f.feeAmount] :
         e \in Exchanges, a \in Assets, m \in Amounts, p \in Prices, f \in Fees }

\* Transform of a stream whose ledgers are the very objects carried
\* forward: the transaction of a seeded asset shows in forwardByAsset.
TransformWritesForward(chunk) ==
    /\ ~writableEnded
    /\ Len(trades) < MaxTx
    /\ LET store == ApplyTransaction(ledgerByAsset, chunk)
           balance == store[chunk.asset].balance
       IN  /\ ledgerByAsset' = store
           /\ trades' = Append(trades, chunk @@ [balance |-> balance])
           /\ assetsWithNegativeBalance' =
                IF BelowTolerance(balance)
                THEN assetsWithNegativeBalance \cup {chunk.asset}
                ELSE assetsWithNegativeBalance
           /\ negativeBalanceByAsset' =
                RecordNegativeBalance(negativeBalanceByAsset, chunk.asset,
                                      balance, chunk.time)
           /\ forwardByAsset' =
                [asset \in DOMAIN forwardByAsset |->
                   [balance |-> store[asset].balance, acb |-> store[asset].acb]]
    /\ UNCHANGED <<writableEnded, pushed>>

Transform(chunk) ==
    /\ ~writableEnded
    /\ Len(trades) < MaxTx
    /\ LET store == ApplyTransaction(ledgerByAsset, chunk)
           balance == store[chunk.asset].balance
       IN  /\ ledgerByAsset' = store
           \* lines 100, 147: the trade, with the balance recorded in it
           /\ trades' = Append(trades, chunk @@ [balance |-> balance])
           \* lines 150-153
           /\ assetsWithNegativeBalance' =
                IF BelowTolerance(balance)
                THEN assetsWithNegativeBalance \cup {chunk.asset}
                ELSE assetsWithNegativeBalance
           /\ negativeBalanceByAsset' =
                RecordNegativeBalance(negativeBalanceByAsset, chunk.asset,
                                      balance, chunk.time)
    /\ UNCHANGED <<forwardByAsset, writableEnded, pushed>>

---------------------------------------------------------------------------
(* _final                                                                  *)

ZeroDisposition == [amount |-> 0, acb |-> Zero, pod |-> 0, oae |-> 0, gain |-> Zero]

\* AddDisposition that keeps the gain of the last disposition instead of
\* adding it up.
AddDispositionKeepsLastGain(a, b) ==
    [amount |-> a.amount + b.amount,
     acb    |-> RAdd(a.acb, b.acb),
     pod    |-> a.pod + b.pod,
     oae    |-> a.oae + b.oae,
     gain   |-> b.gain]

\* lines 162-169, 184-191: the reducer of both folds.
AddDisposition(a, b) ==
    [amount |-> a.amount + b.amount,
     acb    |-> RAdd(a.acb, b.acb),
     pod    |-> a.pod + b.pod,
     oae    |-> a.oae + b.oae,
     gain   |-> RAdd(a.gain, b.gain)]

\* lines 161-176: dispositions.reduce(..., zero)
RECURSIVE ReduceDispositions(_, _)
ReduceDispositions(dispositions, acc) ==
    IF dispositions = << >> THEN acc
    ELSE ReduceDispositions(Tail(dispositions), AddDisposition(acc, Head(dispositions)))

\* lines 179-198: the fold over the aggregate disposition of every ledger.
RECURSIVE ReduceLedgers(_, _, _)
ReduceLedgers(store, assets, acc) ==
    IF assets = {} THEN acc
    ELSE LET asset == CHOOSE a \in assets : TRUE
         IN  ReduceLedgers(store, assets \ {asset},
                           AddDisposition(acc, store[asset].aggregateDisposition))

\* lines 160-176: every ledger receives its aggregate disposition.
WithAggregates(store) ==
    [asset \in DOMAIN store |->
        store[asset] @@
        [aggregateDisposition |-> ReduceDispositions(store[asset].dispositions, ZeroDisposition)]]

\* TaxableGain without the inclusion rate: the whole gain is taxable.
TaxableGainInFull(aggregateDisposition) == aggregateDisposition.gain

\* line 205: capital gains are taxable at 50%.
TaxableGain(aggregateDisposition) == RDiv(aggregateDisposition.gain, RI(2))

\* Final that pushes the snapshot twice.
FinalPushesTwice ==
    /\ ~writableEnded
    /\ writableEnded' = TRUE
    /\ LET store == WithAggregates(ledgerByAsset)
           aggregateDisposition == ReduceLedgers(store, DOMAIN store, ZeroDisposition)
           snapshot == [aggregateDisposition |-> aggregateDisposition,
                        taxableGain |-> TaxableGain(aggregateDisposition)]
       IN  /\ ledgerByAsset' = store
           /\ pushed' = pushed \o <<snapshot, snapshot>>
    /\ UNCHANGED <<forwardByAsset, trades, assetsWithNegativeBalance,
                   negativeBalanceByAsset>>

Final ==
    /\ ~writableEnded
    /\ writableEnded' = TRUE
    /\ LET store == WithAggregates(ledgerByAsset)
           aggregateDisposition == ReduceLedgers(store, DOMAIN store, ZeroDisposition)
       IN  /\ ledgerByAsset' = store
           \* lines 200-206: the maps and the trades are pushed by reference
           /\ pushed' = Append(pushed,
                [aggregateDisposition |-> aggregateDisposition,
                 taxableGain |-> TaxableGain(aggregateDisposition)])
    /\ UNCHANGED <<forwardByAsset, trades, assetsWithNegativeBalance,
                   negativeBalanceByAsset>>

---------------------------------------------------------------------------
Next ==
    \/ \E chunk \in Chunks : Transform(chunk) /\ UNCHANGED mainVars
    \/ Final /\ UNCHANGED mainVars

Spec == Init /\ [][Next]_vars

---------------------------------------------------------------------------
(* main: the command line and the streams piped into the calculate stream. *)

\* The number of trades the merged source emits before it ends.
MaxTrades == 2

\* A number as text: units * 10^-scale ("3.33" is 333 at scale 2), a word
\* that does not start with a number, or a field that is missing.
Decimal(units, scale) == [kind |-> "decimal", units |-> units, scale |-> scale]
Word == [kind |-> "word", units |-> 0, scale |-> 0]
Missing == [kind |-> "undefined", units |-> 0, scale |-> 0]

NaN == [n |-> 0, d |-> 0]
IsNaN(a) == a.d = 0 /\ a.n = 0

RECURSIVE Pow10(_)
Pow10(scale) == IF scale = 0 THEN 1 ELSE 10 * Pow10(scale - 1)

\* parseFloat: the number the text starts with, NaN when there is none.
ParseFloat(text) ==
    IF text.kind = "decimal" THEN Rat(text.units, Pow10(text.scale)) ELSE NaN

\* The values of --init: the specifications between the commas, each split
\* at its colons.  None when the option is not given.
InitValues ==
    { << >>,
      << [asset |-> "BTC", balance |-> Decimal(2, 0), acb |-> Decimal(1000, 2)] >>,
      << [asset |-> "btc", balance |-> Decimal(2, 0), acb |-> Decimal(1000, 2)] >>,
      << [asset |-> "BTC", balance |-> Missing, acb |-> Missing] >>,
      << [asset |-> "BTC", balance |-> Decimal(2, 0), acb |-> Word] >> }

\* The values of --assets: the codes between the commas.
AssetsValues == { << >>, << "btc" >> }

\* The values of --show: the codes between the commas.
ShowValues == { << >>, << "btc" >> }

\* String.prototype.toUpperCase, on the codes of the model.
ToUpperCase(code) ==
    CASE code = "btc" -> "BTC"
      [] code = "eth" -> "ETH"
      [] code = "xbt" -> "XBT"
      [] OTHER -> code

\* Assets.normalizeCode
NormalizeCode(code) ==
    LET upper == ToUpperCase(code)
    IN  CASE upper = "BCC" -> "BCH"
          [] upper \in {"XBT", "XBTC", "XXBT"} -> "BTC"
          [] upper = "XETH" -> "ETH"
          [] upper = "XLTC" -> "LTC"
          [] upper = "ZCAD" -> "CAD"
          [] upper = "ZUSD" -> "USD"
          [] OTHER -> upper

\* Assets.getPriority
GetPriority(code) ==
    CASE code \in {"CAD", "USD"} -> 0
      [] code = "BTC" -> 1
      [] code \in {"BNB", "ETH", "LTC"} -> 2
      [] OTHER -> 3

\* main, lines 103-105 and 108-110: the assets to retain or to show, none
\* when the option is not given.
ParseAssets(codes) == { NormalizeCode(codes[i]) : i \in DOMAIN codes }

\* main, lines 117-121: the balance and the acb of one specification.
ParseForward(spec) ==
    [balance |-> ParseFloat(spec.balance),
     acb |-> IF spec.acb.kind # "undefined" THEN ParseFloat(spec.acb) ELSE Zero]

\* main, lines 113-123: the Map of the assets to carry forward, under the
\* asset as it is written; a later specification of an asset replaces an
\* earlier one.
ParseInit(init) ==
    IF init = << >> THEN Undefined
    ELSE MapObject(
           [asset \in { init[i].asset : i \in DOMAIN init } |->
              LET last == CHOOSE i \in DOMAIN init :
                            /\ init[i].asset = asset
                            /\ \A j \in DOMAIN init : init[j].asset = asset => j <= i
              IN  ParseForward(init[last])])

\* The trades the merged source can emit next: they come sorted by time,
\* with the codes the parsers have normalized and a fee asset always set.
Pairs == { <<"ETH", "CAD">>, <<"ETH", "BTC">>, <<"XRP", "BTC">> }
TradeFees(pair) ==
    { [feeAsset |-> pair[1], feeAmount |-> 0],
      [feeAsset |-> pair[1], feeAmount |-> 1],
      [feeAsset |-> "XRP", feeAmount |-> 1] }
Trades ==
    UNION { { [exchange |-> "kraken", baseAsset |-> pair[1], baseAmount |-> 2,
               quoteAsset |-> pair[2], quoteAmount |-> 1,
               feeAsset |-> fee.feeAsset, feeAmount |-> fee.feeAmount,
               time |-> Len(source) + 1, sell |-> sell] :
                 sell \in BOOLEAN, fee \in TradeFees(pair) } : pair \in Pairs }

\* Admits that lets every trade through.
AdmitsEveryTrade(assets, chunk) == TRUE

\* TradeFilterStream._transform, lines 29-31: no filter, or the base or the
\* quote asset is one to retain.
Admits(assets, chunk) ==
    \/ assets = {}
    \/ chunk.baseAsset \in assets
    \/ chunk.quoteAsset \in assets

\* The source emits a trade and the trade filter stream pushes it or drops
\* it (main pipes the source straight on when no filter is given).
TradeFilter(chunk) ==
    /\ ~writableEnded
    /\ Len(source) < MaxTrades
    /\ source' = Append(source, chunk)
    /\ filtered' = IF Admits(ParseAssets(opts.assets), chunk)
                   THEN Append(filtered, chunk) ELSE filtered
    /\ UNCHANGED <<opts, valued, transactions, rejected, formatted, lookup, tradeParse, streamVars>>

\* options.history: the price of a unit of the asset in Canadian dollars,
\* the same at every time.  An asset that is not listed has no history.
History == ("BTC" :> 6) @@ ("ETH" :> 1)

\* _lookupValue: the value of the amount by the history, NaN without one.
LookupValue(asset, amount, time) ==
    IF asset \in DOMAIN History THEN RI(amount * History[asset]) ELSE NaN

\* line 132, bounds.lt of binary-search-bounds with _compareHistoryTime
\* (lines 184-186): the index, counted from 0, of the last record of the
\* series whose time is before the given time, -1 when there is none.
BoundsLt(history, time) ==
    LET before == { i \in DOMAIN history : history[i].time < time }
    IN  IF before = {} THEN -1
        ELSE (CHOOSE i \in before : \A j \in before : j <= i) - 1

\* history[i], the index counted from 0: undefined outside of the series.
\* Reading a property of undefined throws a TypeError.
HasRecord(history, i) == i + 1 \in DOMAIN history
RecordAt(history, i) == history[i + 1]

\* _lerp, lines 195-197
Lerp(a, b, t) == RAdd(RMul(a, t), RMul(b, RSub(RI(1), t)))

\* _lookupValue1, lines 132-142, on the series of the pair: the value
\* returned, or the error thrown.
LookupValue1(history, time) ==
    LET i == BoundsLt(history, time)
    IN  IF i = -1 THEN [thrown |-> FALSE, value |-> NaN]
        ELSE IF i = Len(history)
        THEN IF HasRecord(history, i)
             THEN [thrown |-> FALSE, value |-> RI(RecordAt(history, i).close)]
             ELSE [thrown |-> TRUE, value |-> NaN]
        ELSE IF ~HasRecord(history, i + 1)
        THEN [thrown |-> TRUE, value |-> NaN]
        ELSE LET t == RDiv(RI(time - RecordAt(history, i).time),
                           RI(RecordAt(history, i + 1).time - RecordAt(history, i).time))
             IN  [thrown |-> FALSE,
                  value |-> Lerp(RI(RecordAt(history, i).open),
                                 RI(RecordAt(history, i + 1).open), t)]

\* _requestValue: the option web is not given, nothing is requested.
RequestValue(asset, amount, time) == NaN

\* GetValue that values at nothing what it cannot resolve.
GetValueOrZero(asset, amount, time) ==
    IF asset = "CAD" THEN [thrown |-> FALSE, value |-> RI(amount)]
    ELSE IF ~IsNaN(LookupValue(asset, amount, time))
    THEN [thrown |-> FALSE, value |-> LookupValue(asset, amount, time)]
    ELSE [thrown |-> FALSE, value |-> Zero]

\* _getValue, lines 62-78: the value returned, or the error thrown.
GetValue(asset, amount, time) ==
    IF asset = "CAD" THEN [thrown |-> FALSE, value |-> RI(amount)]
    ELSE IF ~IsNaN(LookupValue(asset, amount, time))
    THEN [thrown |-> FALSE, value |-> LookupValue(asset, amount, time)]
    ELSE IF ~IsNaN(RequestValue(asset, amount, time))
    THEN [thrown |-> FALSE, value |-> RequestValue(asset, amount, time)]
    ELSE [thrown |-> TRUE, value |-> NaN]

\* lines 45-48: the value of the fee of a trade of the given value.
FeeValue(chunk, value) ==
    IF chunk.feeAsset = chunk.baseAsset
    THEN [thrown |-> FALSE,
          value |-> RDiv(RMul(value, RI(chunk.feeAmount)), RI(chunk.baseAmount))]
    ELSE IF chunk.feeAsset = chunk.quoteAsset
    THEN [thrown |-> FALSE,
          value |-> RDiv(RMul(value, RI(chunk.feeAmount)), RI(chunk.quoteAmount))]
    ELSE GetValue(chunk.feeAsset, chunk.feeAmount, chunk.time)

\* The prices of the history are whole and so are the values: the number
\* of dollars of a value.
Dollars(value) == value.n \div value.d

\* TradeValueStream._transform, lines 35-53.  An error thrown by _getValue
\* rejects the promise of the handler: the trade is not pushed, the callback
\* is not called and the stream takes no further trade.
TradeValue ==
    /\ filtered # << >>
    /\ ~rejected
    /\ LET chunk == Head(filtered)
           value == GetValue(chunk.baseAsset, chunk.baseAmount, chunk.time)
           feeValue == FeeValue(chunk, value.value)
       IN  /\ filtered' = Tail(filtered)
           /\ IF value.thrown \/ feeValue.thrown
              THEN /\ rejected' = TRUE
                   /\ valued' = valued
              ELSE /\ rejected' = FALSE
                   /\ valued' = Append(valued,
                        chunk @@ [value |-> Dollars(value.value),
                                  feeValue |-> Dollars(feeValue.value)])
    /\ UNCHANGED <<opts, source, transactions, formatted, lookup, tradeParse, streamVars>>

\* lines 36-51: the transaction of one side of the trade, without a fee.
SideChunk(chunk, asset, amount) ==
    [exchange |-> chunk.exchange, asset |-> asset, amount |-> amount,
     value |-> chunk.value, time |-> chunk.time, feeValue |-> 0,
     feeAsset |-> NoAsset, feeAmount |-> 0]

Retained(c) == c.amount # 0 /\ GetPriority(c.asset) # 0

\* TradeTransactionsOf that keeps the side of a fiat currency.
TradeTransactionsOfKeepsFiat(chunk) ==
    LET baseChunk == SideChunk(chunk, chunk.baseAsset, chunk.baseAmount)
        quoteChunk == SideChunk(chunk, chunk.quoteAsset, chunk.quoteAmount)
        ordered == IF chunk.sell THEN <<quoteChunk, baseChunk>>
                   ELSE <<baseChunk, quoteChunk>>
        negated == [ordered EXCEPT ![1].amount = -ordered[1].amount]
        NotEmpty(c) == c.amount # 0
        chunks == SelectSeq(negated, NotEmpty)
    IN  IF chunks = << >> THEN << >>
        ELSE LET withFeeValue == [chunks EXCEPT ![1].feeValue = chunk.feeValue]
             IN  [withFeeValue EXCEPT ![Len(chunks)].feeAsset = chunk.feeAsset,
                                      ![Len(chunks)].feeAmount = chunk.feeAmount]

\* TradeTransactionsOf that sets the fee asset and the fee amount of the
\* trade on every transaction.
TradeTransactionsOfFeeOnEverySide(chunk) ==
    LET baseChunk == SideChunk(chunk, chunk.baseAsset, chunk.baseAmount)
        quoteChunk == SideChunk(chunk, chunk.quoteAsset, chunk.quoteAmount)
        ordered == IF chunk.sell THEN <<quoteChunk, baseChunk>>
                   ELSE <<baseChunk, quoteChunk>>
        negated == [ordered EXCEPT ![1].amount = -ordered[1].amount]
        chunks == SelectSeq(negated, Retained)
    IN  IF chunks = << >> THEN << >>
        ELSE LET withFeeValue == [chunks EXCEPT ![1].feeValue = chunk.feeValue]
             IN  [i \in DOMAIN chunks |->
                    [withFeeValue[i] EXCEPT !.feeAsset = chunk.feeAsset,
                                            !.feeAmount = chunk.feeAmount]]

\* TradeTransactionsStream._transform, lines 36-84: the transactions of a
\* trade, the disposed asset first.
TradeTransactionsOf(chunk) ==
    LET baseChunk == SideChunk(chunk, chunk.baseAsset, chunk.baseAmount)
        quoteChunk == SideChunk(chunk, chunk.quoteAsset, chunk.quoteAmount)
        ordered == IF chunk.sell THEN <<quoteChunk, baseChunk>>
                   ELSE <<baseChunk, quoteChunk>>
        negated == [ordered EXCEPT ![1].amount = -ordered[1].amount]
        chunks == SelectSeq(negated, Retained)
    IN  IF chunks = << >> THEN << >>
        ELSE LET withFeeValue == [chunks EXCEPT ![1].feeValue = chunk.feeValue]
             IN  [withFeeValue EXCEPT ![Len(chunks)].feeAsset = chunk.feeAsset,
                                      ![Len(chunks)].feeAmount = chunk.feeAmount]

TradeTransactions ==
    /\ valued # << >>
    /\ valued' = Tail(valued)
    /\ transactions' = transactions \o TradeTransactionsOf(Head(valued))
    /\ UNCHANGED <<opts, source, filtered, rejected, formatted, lookup, tradeParse, streamVars>>

\* The calculate stream takes the next transaction piped into it.
Calculate ==
    /\ transactions # << >>
    /\ Transform(Head(transactions))
    /\ transactions' = Tail(transactions)
    /\ UNCHANGED <<opts, source, filtered, valued, rejected, formatted, lookup, tradeParse>>

\* The source has ended and every stream has passed on what it took: the
\* end reaches the calculate stream.  A stream that has thrown never ends.
End ==
    /\ filtered = << >> /\ valued = << >> /\ transactions = << >>
    /\ ~rejected
    /\ Final
    /\ UNCHANGED mainVars

---------------------------------------------------------------------------
(* CapitalGainsFormatStream._transform: the specification to carry forward *)

\* The codes of the model in the order of localeCompare (lines 122-125).
SortedCodes == <<"btc", "BTC", "CAD", "ETH", "XRP">>

\* The number nearest to a * 10^scale, a half rounded away from zero: the
\* rounding of Intl.NumberFormat.
RoundToScale(a, scale) ==
    LET n == Abs(a.n) * Pow10(scale)
    IN  Sign(a.n) * ((2 * n + a.d) \div (2 * a.d))

\* line 257, _amountFormatNoTrailingZeros: at most 8 fraction digits and no
\* trailing zero.  A whole balance is written without fraction digits.
FormatAmountNoTrailingZeros(balance) == Decimal(balance, 0)

\* line 258, _valueFormatNoGrouping: exactly 2 fraction digits.
FormatValueNoGrouping(value) ==
    IF Finite(value) THEN Decimal(RoundToScale(value, 2), 2) ELSE Word

\* lines 241-244: the ledger carries a balance.
CarriesBalance(ledger) == BelowTolerance(ledger.balance) \/ ledger.balance > 0

\* lines 241-260: the specifications written for --init, sorted by asset.
CarryForward(store) ==
    LET Carried(asset) == asset \in DOMAIN store /\ CarriesBalance(store[asset])
        assets == SelectSeq(SortedCodes, Carried)
    IN  [i \in DOMAIN assets |->
           [asset |-> assets[i],
            balance |-> FormatAmountNoTrailingZeros(store[assets[i]].balance),
            acb |-> FormatValueNoGrouping(store[assets[i]].acb)]]

\* _formatAmount, lines 275-280: the magnitude with 8 fraction digits, in
\* parentheses when the amount is below the tolerance.
FormatAmount(amount) ==
    [digits |-> Decimal(Abs(amount) * Pow10(8), 8),
     parentheses |-> BelowTolerance(amount)]

\* _formatValue, lines 282-287: the magnitude with 2 fraction digits, in
\* parentheses when the value is below -0.005; "NaN" for what is no number.
FormatValue(value) ==
    [digits |-> IF Finite(value)
                THEN Decimal(RoundToScale([n |-> Abs(value.n), d |-> value.d], 2), 2)
                ELSE Word,
     parentheses |-> Finite(value) /\ 200 * value.n < -value.d]

\* line 114: trade.acb, undefined when nothing has written it.
TradeAcb(trade) == IF "acb" \in DOMAIN trade THEN trade.acb ELSE NaN

\* lines 109-119: the rows of the table of the trades.
TradeRows(shown) ==
    [i \in DOMAIN shown |->
       [asset |-> shown[i].asset,
        amount |-> FormatAmount(shown[i].amount),
        value |-> FormatValue(RI(shown[i].value)),
        balance |-> FormatAmount(shown[i].balance),
        acb |-> FormatValue(TradeAcb(shown[i]))]]

\* lines 57-59, 65-67, 70-72: the entries of the map left once those of
\* the assets not to show are deleted from it.
Restrict(map, assets) == [asset \in DOMAIN map \cap assets |-> map[asset]]

\* CapitalGainsFormatStream._transform, lines 53-267: the snapshot pushed
\* by the calculate stream holds the maps and the trades of that stream by
\* reference; with assets to show the format stream deletes the others
\* from them before it writes the report.
Format ==
    /\ Len(pushed) = 1
    /\ formatted = << >>
    /\ LET assets == ParseAssets(opts.show)
           Shown(trade) == trade.asset \in assets
           shown == IF assets # {} THEN SelectSeq(trades, Shown) ELSE trades
           store == IF assets # {} THEN Restrict(ledgerByAsset, assets)
                    ELSE ledgerByAsset
       IN  /\ forwardByAsset' = IF assets # {} THEN Restrict(forwardByAsset, assets)
                                ELSE forwardByAsset
           /\ trades' = shown
           /\ ledgerByAsset' = store
           /\ negativeBalanceByAsset' =
                IF assets # {} THEN Restrict(negativeBalanceByAsset, assets)
                ELSE negativeBalanceByAsset
           /\ formatted' = << [trades |-> TradeRows(shown),
                               forward |-> CarryForward(store)] >>
    /\ UNCHANGED <<assetsWithNegativeBalance, writableEnded, pushed,
                   opts, source, filtered, valued, transactions, rejected,
                   lookup, tradeParse>>

---------------------------------------------------------------------------
\* main, lines 27-171: the options are parsed and the streams are built
\* before the first trade is read.
MainInit ==
    /\ opts \in [init : InitValues, assets : AssetsValues, show : ShowValues]
    /\ Constructor([assets |-> ParseAssets(opts.assets),
                    forwardByAsset |-> ParseInit(opts.init)])
    /\ source = << >>
    /\ filtered = << >>
    /\ valued = << >>
    /\ transactions = << >>
    /\ rejected = FALSE
    /\ formatted = << >>
    /\ lookup = NoLookup
    /\ tradeParse = NoRecords

MainNext ==
    \/ \E chunk \in Trades : TradeFilter(chunk)
    \/ TradeValue
    \/ TradeTransactions
    \/ Calculate
    \/ End
    \/ Format

MainSpec == MainInit /\ [][MainNext]_vars

---------------------------------------------------------------------------
(* The trade transactions stream on its own: one trade of any kind has been *)
(* valued and is written to it, and the calculate stream applies what it   *)
(* pushes.                                                                 *)

\* The trades with a value: either amount may be 0, either asset may be a
\* fiat currency, and the fee is charged in the base asset, in the quote
\* asset or in a third one.
ValuedTrades ==
    { [exchange |-> "kraken", baseAsset |-> base, baseAmount |-> baseAmount,
       quoteAsset |-> quote, quoteAmount |-> quoteAmount,
       feeAsset |-> fee.feeAsset, feeAmount |-> fee.feeAmount,
       time |-> 1, sell |-> sell, value |-> 6, feeValue |-> feeValue] :
         base \in {"BTC", "CAD"}, baseAmount \in {0, 2},
         quote \in {"ETH", "USD"}, quoteAmount \in {0, 1},
         fee \in { [feeAsset |-> "BTC", feeAmount |-> 0],
                   [feeAsset |-> "BTC", feeAmount |-> 1],
                   [feeAsset |-> "ETH", feeAmount |-> 1],
                   [feeAsset |-> "XRP", feeAmount |-> 1] },
         sell \in BOOLEAN, feeValue \in {0, 1} }

\* The trade as the source has emitted it, before it was valued.
Unvalued(chunk) == [field \in DOMAIN chunk \ {"value", "feeValue"} |-> chunk[field]]

TransactionsInit ==
    /\ opts = [init |-> << >>, assets |-> << >>, show |-> << >>]
    /\ Constructor([assets |-> {}, forwardByAsset |-> Undefined])
    /\ \E chunk \in ValuedTrades :
          /\ source = << Unvalued(chunk) >>
          /\ valued = << chunk >>
    /\ filtered = << >>
    /\ transactions = << >>
    /\ rejected = FALSE
    /\ formatted = << >>
    /\ lookup = NoLookup
    /\ tradeParse = NoRecords

TransactionsNext ==
    \/ TradeTransactions
    \/ Calculate

TransactionsSpec == TransactionsInit /\ [][TransactionsNext]_vars

---------------------------------------------------------------------------
(* _lookupValue1 on its own: a price is looked up in a series sorted by    *)
(* time.                                                                   *)

\* The times of the records of a series and the times looked up.
HistoryTimes == {1, 4, 6}
LookupTimes == 0..7
Opens == {1, 4}
Closes == {2}

\* The series of the history: the records of any of the times, sorted by
\* time, each with an open and a close price.
RECURSIVE SeriesOf(_)
SeriesOf(times) ==
    IF times = {} THEN { << >> }
    ELSE LET last == CHOOSE t \in times : \A u \in times : u <= t
         IN  { Append(series, [time |-> last, open |-> open, close |-> close]) :
                 series \in SeriesOf(times \ {last}), open \in Opens, close \in Closes }

Series == UNION { SeriesOf(times) : times \in SUBSET HistoryTimes }

LookupInit ==
    /\ opts = [init |-> << >>, assets |-> << >>, show |-> << >>]
    /\ Constructor([assets |-> {}, forwardByAsset |-> Undefined])
    /\ source = << >>
    /\ filtered = << >>
    /\ valued = << >>
    /\ transactions = << >>
    /\ rejected = FALSE
    /\ formatted = << >>
    /\ tradeParse = NoRecords
    /\ \E history \in Series, time \in LookupTimes :
          lookup = [history |-> history, time |-> time, returned |-> FALSE,
                    thrown |-> FALSE, value |-> NaN]

\* The price is looked up: the call returns a value or throws.
Lookup ==
    /\ ~lookup.returned /\ ~lookup.thrown
    /\ LET outcome == LookupValue1(lookup.history, lookup.time)
       IN  lookup' = [lookup EXCEPT !.returned = ~outcome.thrown,
                                    !.thrown = outcome.thrown,
                                    !.value = outcome.value]
    /\ UNCHANGED <<opts, source, filtered, valued, transactions, rejected,
                   formatted, tradeParse, streamVars>>

LookupNext == Lookup

LookupSpec == LookupInit /\ [][LookupNext]_vars

---------------------------------------------------------------------------
(* TradeParseStream._transformKraken on its own: the rows of a ledger of   *)
(* Kraken are written to the trade parse stream.                           *)

\* The number of rows of the ledger.
MaxRecords == 4

\* The rows of a ledger of Kraken: the row of a trade or of a deposit, at
\* the time of its place in the ledger.
KrakenRecords ==
    { [type |-> type, asset |-> asset, amount |-> amount, fee |-> 1,
       time |-> Len(tradeParse.records) + 1] :
         type \in {"trade", "deposit"}, asset \in {"XXBT", "XETH"}, amount \in {-1, 2} }

\* lines 169-174: the properties of the row, normalized.
KrakenChunk(chunk) ==
    [asset |-> NormalizeCode(chunk.asset), amount |-> chunk.amount,
     time |-> chunk.time, fee |-> chunk.fee]

\* lines 183-199: the trade of two rows that follow each other.
KrakenTrade(chunks) ==
    LET isCurrencyPairReversed ==
            GetPriority(chunks[1].asset) < GetPriority(chunks[2].asset)
        baseChunk == IF isCurrencyPairReversed THEN chunks[1] ELSE chunks[2]
        quoteChunk == IF isCurrencyPairReversed THEN chunks[2] ELSE chunks[1]
    IN  [exchange |-> "Kraken",
         baseAsset |-> baseChunk.asset, baseAmount |-> Abs(baseChunk.amount),
         quoteAsset |-> quoteChunk.asset, quoteAmount |-> Abs(quoteChunk.amount),
         feeAsset |-> baseChunk.asset, feeAmount |-> baseChunk.fee,
         time |-> baseChunk.time,
         sell |-> baseChunk.amount > 0 \/ quoteChunk.amount < 0]

\* TransformKraken that keeps the pending row when a row that is no trade
\* arrives.
TransformKrakenKeepsPending(chunk) ==
    /\ Len(tradeParse.records) < MaxRecords
    /\ LET chunks == Append(tradeParse.tradeChunks, KrakenChunk(chunk))
           records == Append(tradeParse.records, chunk)
       IN  tradeParse' =
             IF chunk.type # "trade"
             THEN [tradeParse EXCEPT !.records = records]
             ELSE IF Len(chunks) = 2
             THEN [records |-> records, tradeChunks |-> << >>,
                   pushed |-> Append(tradeParse.pushed, KrakenTrade(chunks))]
             ELSE [tradeParse EXCEPT !.records = records, !.tradeChunks = chunks]
    /\ UNCHANGED <<opts, source, filtered, valued, transactions, rejected,
                   formatted, lookup, streamVars>>

\* _transformKraken, lines 156-203
TransformKraken(chunk) ==
    /\ Len(tradeParse.records) < MaxRecords
    /\ LET chunks == Append(tradeParse.tradeChunks, KrakenChunk(chunk))
           records == Append(tradeParse.records, chunk)
       IN  tradeParse' =
             \* lines 160-166: we only care about trades
             IF chunk.type # "trade"
             THEN [tradeParse EXCEPT !.records = records, !.tradeChunks = << >>]
             \* lines 177-202: two consecutive trade chunks are a single trade
             ELSE IF Len(chunks) = 2
             THEN [records |-> records, tradeChunks |-> << >>,
                   pushed |-> Append(tradeParse.pushed, KrakenTrade(chunks))]
             ELSE [tradeParse EXCEPT !.records = records, !.tradeChunks = chunks]
    /\ UNCHANGED <<opts, source, filtered, valued, transactions, rejected,
                   formatted, lookup, streamVars>>

KrakenInit ==
    /\ opts = [init |-> << >>, assets |-> << >>, show |-> << >>]
    /\ Constructor([assets |-> {}, forwardByAsset |-> Undefined])
    /\ source = << >>
    /\ filtered = << >>
    /\ valued = << >>
    /\ transactions = << >>
    /\ rejected = FALSE
    /\ formatted = << >>
    /\ lookup = NoLookup
    /\ tradeParse = NoRecords

KrakenNext == \E chunk \in KrakenRecords : TransformKraken(chunk)

KrakenSpec == KrakenInit /\ [][KrakenNext]_vars

---------------------------------------------------------------------------
(* What the properties below read off a step and off the history.          *)

\* A transaction was applied by this step; tx is that transaction.
Applied == Len(trades') = Len(trades) + 1
tx == trades'[Len(trades')]

\* The ledger of an asset before the step: an asset without a ledger is
\* handled as one whose ledger is empty.
LedgerBefore(asset) ==
    IF asset \in DOMAIN ledgerByAsset THEN ledgerByAsset[asset]
    ELSE [acb |-> RI(0), balance |-> 0, dispositions |-> << >>]

\* The cost base of one unit held in a ledger, 0 for a ledger that holds none.
CostPerUnit(acb, balance) == IF balance = 0 THEN RI(0) ELSE RDiv(acb, RI(balance))

\* The fee of the transaction is charged in the asset the transaction trades.
FeeInOwnAsset(t) == t.feeAmount # 0 /\ t.feeAsset = t.asset

ForwardBalance(asset) ==
    IF asset \in DOMAIN forwardByAsset THEN forwardByAsset[asset].balance ELSE 0
ForwardAcb(asset) ==
    IF asset \in DOMAIN forwardByAsset THEN forwardByAsset[asset].acb ELSE RI(0)

\* The asset had a ledger when the i-th transaction settled its fee.
HadLedger(asset, i) ==
    \/ asset \in DOMAIN forwardByAsset
    \/ \E j \in 1..i : trades[j].asset = asset

RECURSIVE SumAmounts(_, _)
SumAmounts(asset, i) ==
    IF i = 0 THEN 0
    ELSE SumAmounts(asset, i - 1)
         + (IF trades[i].asset = asset THEN trades[i].amount ELSE 0)

RECURSIVE SumSettledFees(_, _)
SumSettledFees(asset, i) ==
    IF i = 0 THEN 0
    ELSE SumSettledFees(asset, i - 1)
         + (IF trades[i].feeAmount # 0 /\ trades[i].feeAsset = asset /\ HadLedger(asset, i)
            THEN trades[i].feeAmount ELSE 0)

---------------------------------------------------------------------------
\* C1: after any sequence of transactions, the balance of every ledger is
\* the forward balance of its asset (0 when not seeded) plus the amounts of
\* the transactions of that asset minus the fee amounts of the transactions
\* whose fee settlement adjusted that ledger.
C1_BalanceIsForwardPlusAmountsMinusFees ==
    \A asset \in DOMAIN ledgerByAsset :
        ledgerByAsset[asset].balance =
            ForwardBalance(asset) + SumAmounts(asset, Len(trades))
                                  - SumSettledFees(asset, Len(trades))

\* A seeded asset that was traded and that also paid a fee.
C1_Witness ==
    \E asset \in DOMAIN forwardByAsset :
        /\ forwardByAsset[asset].balance # 0
        /\ SumAmounts(asset, Len(trades)) # 0
        /\ SumSettledFees(asset, Len(trades)) # 0
        /\ \E i \in 1..Len(trades) : trades[i].asset # asset /\ trades[i].feeAsset = asset

\* C2: a transaction with a negative amount appends exactly one disposition
\* to the dispositions of its asset: amount = -tx.amount, pod = tx.value,
\* oae = tx.feeValue, time = tx.time, exchange = tx.exchange,
\* acb = amount * (acb / balance of the ledger before, 0 for a balance of 0)
\* and gain = pod - acb - oae.
C2_DisposalAppendsDisposition ==
    [][ (Applied /\ tx.amount < 0) =>
          LET old == LedgerBefore(tx.asset)
              new == ledgerByAsset'[tx.asset]
              d   == new.dispositions[Len(new.dispositions)]
              acb == RMul(RI(-tx.amount), CostPerUnit(old.acb, old.balance))
          IN  /\ Len(new.dispositions) = Len(old.dispositions) + 1
              /\ SubSeq(new.dispositions, 1, Len(old.dispositions)) = old.dispositions
              /\ d = [exchange |-> tx.exchange, amount |-> -tx.amount,
                      pod |-> tx.value, oae |-> tx.feeValue, time |-> tx.time,
                      acb |-> acb,
                      gain |-> RSub(RSub(RI(tx.value), acb), RI(tx.feeValue))]
              /\ \A other \in DOMAIN ledgerByAsset \ {tx.asset} :
                    ledgerByAsset'[other].dispositions = ledgerByAsset[other].dispositions
      ]_vars

\* The example of the claim in units of 0.5 BTC and 1000 dollars: the ledger
\* {acb 10, balance 2} disposes 1 for a value of 6 without a fee.
C2_Witness ==
    /\ "BTC" \in DOMAIN forwardByAsset
    /\ forwardByAsset["BTC"] = [balance |-> 2, acb |-> RI(10)]
    /\ Len(trades) = 1
    /\ trades[1].asset = "BTC" /\ trades[1].amount = -1
    /\ ledgerByAsset["BTC"].dispositions =
         << [exchange |-> "kraken", amount |-> 1, pod |-> 6, oae |-> 0, time |-> 1,
             acb |-> RI(5), gain |-> RI(1)] >>

\* The ledger of the traded asset as the disposal or the acquisition alone
\* leaves it, written from the rule of the moving average: a disposal takes
\* the cost base of the units it removes, an acquisition adds what it cost.
AfterAmount(old, t) ==
    [acb |-> IF t.amount < 0
             THEN RSub(old.acb, RMul(RI(-t.amount), CostPerUnit(old.acb, old.balance)))
             ELSE RAdd(old.acb, RI(t.value + t.feeValue)),
     balance |-> old.balance + t.amount]

\* A ledger after feeAmount units have been taken out of it for a fee.
AfterFee(ledger, feeAmount) ==
    [acb |-> RSub(ledger.acb,
                  RMul(RI(feeAmount), CostPerUnit(ledger.acb, ledger.balance))),
     balance |-> ledger.balance - feeAmount]

Numbers(ledger) == [acb |-> ledger.acb, balance |-> ledger.balance]

\* What C3 says of a disposal that took the ledger from old to new.
DisposalBooked(old, new, t) ==
    LET d == new.dispositions[Len(new.dispositions)]
    IN  /\ new.acb = RSub(old.acb, d.acb)
        /\ new.balance = old.balance + t.amount
        /\ (old.balance # 0 /\ new.balance # 0) =>
              CostPerUnit(new.acb, new.balance) = CostPerUnit(old.acb, old.balance)
        /\ (old.balance # 0 /\ old.balance = -t.amount) => new.acb = RI(0)

AcquisitionBooked(old, new, t) ==
    /\ new.acb = RAdd(old.acb, RI(t.value + t.feeValue))
    /\ new.balance = old.balance + t.amount

RECURSIVE SumCosts(_)
SumCosts(i) ==
    IF i = 0 THEN 0 ELSE SumCosts(i - 1) + trades[i].value + trades[i].feeValue

\* Every transaction so far acquired the asset.
OnlyAcquisitionsOf(asset) ==
    /\ trades # << >>
    /\ \A i \in 1..Len(trades) : trades[i].asset = asset /\ trades[i].amount >= 0

ZeroCostDisposition(d, t) ==
    /\ d.acb = RI(0)
    /\ d.gain = RI(t.value - t.feeValue)

C6_ZeroBalanceDisposalStep ==
    /\ (Applied /\ tx.amount < 0 /\ LedgerBefore(tx.asset).balance = 0) =>
          LET old == LedgerBefore(tx.asset)
              new == ledgerByAsset'[tx.asset]
          IN  /\ ZeroCostDisposition(new.dispositions[Len(new.dispositions)], tx)
              /\ Finite(new.acb)
              /\ new.acb = IF FeeInOwnAsset(tx)
                           THEN RSub(old.acb, RMul(RI(tx.feeAmount),
                                                   RDiv(old.acb, RI(tx.amount))))
                           ELSE old.acb
              /\ ~writableEnded'
    /\ ( /\ Applied /\ tx.feeAmount # 0 /\ tx.feeAsset # tx.asset
         /\ tx.feeAsset \in DOMAIN ledgerByAsset
         /\ ledgerByAsset[tx.feeAsset].balance = 0 ) =>
          /\ ledgerByAsset'[tx.feeAsset].acb = ledgerByAsset[tx.feeAsset].acb
          /\ Finite(ledgerByAsset'[tx.feeAsset].acb)
          /\ ledgerByAsset'[tx.feeAsset].balance = -tx.feeAmount

OthersUnchanged(assets) ==
    \A other \in DOMAIN ledgerByAsset \ assets :
        ledgerByAsset'[other] = ledgerByAsset[other]

C8_FeeSettlementIsProportional ==
    [][ (Applied /\ tx.feeAmount # 0 /\ tx.feeAsset \in DOMAIN ledgerByAsset \cup {tx.asset}) =>
          LET own == tx.feeAsset = tx.asset
              y   == IF own THEN AfterAmount(LedgerBefore(tx.asset), tx)
                     ELSE Numbers(ledgerByAsset[tx.feeAsset])
              y2  == ledgerByAsset'[tx.feeAsset]
          IN  /\ y2.balance = y.balance - tx.feeAmount
              /\ y2.acb = RSub(y.acb, RMul(CostPerUnit(y.acb, y.balance), RI(tx.feeAmount)))
              /\ ~own => y2.dispositions = ledgerByAsset[tx.feeAsset].dispositions
              /\ own => Len(y2.dispositions) = Len(LedgerBefore(tx.asset).dispositions)
                                                + (IF tx.amount < 0 THEN 1 ELSE 0)
              /\ (y.balance # 0 /\ y2.balance # 0) =>
                    CostPerUnit(y2.acb, y2.balance) = CostPerUnit(y.acb, y.balance)
      ]_vars

\* ETH is acquired for a fee of 1 BTC, taken from the seeded BTC ledger
\* {acb 10, balance 2}: {acb 5, balance 1}, still 5 per unit.
C8_Witness ==
    /\ Len(trades) = 1
    /\ forwardByAsset = ("BTC" :> [balance |-> 2, acb |-> RI(10)])
    /\ trades[1].asset = "ETH" /\ trades[1].amount = 1
    /\ trades[1].feeAsset = "BTC" /\ trades[1].feeAmount = 1
    /\ ledgerByAsset["BTC"] = [acb |-> RI(5), balance |-> 1, dispositions |-> << >>]

\* C9: when the fee asset has no ledger at the moment the transaction is
\* processed, fee settlement changes nothing and creates no ledger for it:
\* a transaction adds at most one key to the ledger store, its own asset.
C9_FeeSettlementCreatesNoLedger ==
    [][ Applied =>
          /\ DOMAIN ledgerByAsset' = DOMAIN ledgerByAsset \cup {tx.asset}
          /\ (tx.feeAmount # 0 /\ tx.feeAsset \notin DOMAIN ledgerByAsset \cup {tx.asset}) =>
                /\ tx.feeAsset \notin DOMAIN ledgerByAsset'
                /\ OthersUnchanged({tx.asset})
                /\ Numbers(ledgerByAsset'[tx.asset]) = AfterAmount(LedgerBefore(tx.asset), tx)
      ]_vars

\* BTC is acquired for a fee in ETH, which has no ledger and gets none.
C9_Witness ==
    /\ Len(trades) = 1
    /\ trades[1].asset = "BTC" /\ trades[1].amount = 1
    /\ trades[1].feeAsset = "ETH" /\ trades[1].feeAmount = 1
    /\ DOMAIN ledgerByAsset = {"BTC"}
    /\ ledgerByAsset["BTC"].balance = 3

RECURSIVE SumOfInt(_, _, _)
SumOfInt(seq, field, i) ==
    IF i = 0 THEN 0 ELSE SumOfInt(seq, field, i - 1) + seq[i][field]

RECURSIVE SumOfRat(_, _, _)
SumOfRat(seq, field, i) ==
    IF i = 0 THEN RI(0) ELSE RAdd(SumOfRat(seq, field, i - 1), seq[i][field])

\* The componentwise sum of a sequence of dispositions.
Total(seq) ==
    [amount |-> SumOfInt(seq, "amount", Len(seq)),
     pod    |-> SumOfInt(seq, "pod", Len(seq)),
     acb    |-> SumOfRat(seq, "acb", Len(seq)),
     oae    |-> SumOfInt(seq, "oae", Len(seq)),
     gain   |-> SumOfRat(seq, "gain", Len(seq))]

\* The aggregate dispositions of the ledgers of the given assets, in a row.
RECURSIVE AggregatesOf(_)
AggregatesOf(assets) ==
    IF assets = {} THEN << >>
    ELSE LET asset == CHOOSE a \in assets : TRUE
         IN  <<ledgerByAsset[asset].aggregateDisposition>> \o AggregatesOf(assets \ {asset})

\* C10: at finalization the aggregateDisposition of every ledger is the
\* componentwise sum of {amount, pod, acb, oae, gain} over the dispositions
\* of that ledger (all zero without a disposition), and the
\* aggregateDisposition of the snapshot is the componentwise sum of the
\* aggregates of all the ledgers of the store (all zero for an empty store).
C10_AggregatesAreComponentwiseSums ==
    writableEnded =>
        /\ Len(pushed) = 1
        /\ \A asset \in DOMAIN ledgerByAsset :
              ledgerByAsset[asset].aggregateDisposition =
                  Total(ledgerByAsset[asset].dispositions)
        /\ pushed[1].aggregateDisposition = Total(AggregatesOf(DOMAIN ledgerByAsset))

\* Both assets were disposed of, one at a gain and one at a loss, before
\* the snapshot was pushed.
C10_Witness ==
    /\ writableEnded
    /\ DOMAIN ledgerByAsset = {"BTC", "ETH"}
    /\ Len(ledgerByAsset["BTC"].dispositions) = 1
    /\ Len(ledgerByAsset["ETH"].dispositions) = 1
    /\ ledgerByAsset["BTC"].aggregateDisposition.gain = RI(1)
    /\ ledgerByAsset["ETH"].aggregateDisposition.gain = RI(-4)
    /\ pushed[1].aggregateDisposition =
         [amount |-> 2, pod |-> 7, acb |-> RI(9), oae |-> 1, gain |-> RI(-3)]

---------------------------------------------------------------------------
\* C11: in every snapshot pushed by _final the taxable gain is exactly half
\* of the gain of the grand aggregate disposition: twice the taxable gain
\* is the gain, for a gain, for a loss and for no disposition at all.
C11_TaxableGainIsHalfTheGain ==
    \A i \in 1..Len(pushed) :
        LET snapshot == pushed[i]
        IN  /\ Finite(snapshot.taxableGain)
            /\ RAdd(snapshot.taxableGain, snapshot.taxableGain) =
                  snapshot.aggregateDisposition.gain
            /\ (trades = << >>) =>
                  /\ snapshot.aggregateDisposition.gain = Zero
                  /\ snapshot.taxableGain = Zero

\* A snapshot whose total is a loss of an odd amount: the taxable loss is
\* not a whole number.
C11_Witness ==
    /\ Len(pushed) = 1
    /\ pushed[1].aggregateDisposition.gain.n < 0
    /\ pushed[1].taxableGain.d = 2
    /\ pushed[1].taxableGain.n < 0

---------------------------------------------------------------------------
\* The ledgers of the calculate stream that main constructs next year from
\* the specification written this year.
NextYearLedgers ==
    ForwardLedgers(ForwardOf([forwardByAsset |-> ParseInit(CarryForward(ledgerByAsset))]))

\* |a - b| <= 10^-9
WithinTolerance(a, b) ==
    LET diff == RSub(a, b)
    IN  Finite(diff) /\ Abs(diff.n) * 1000000000 <= diff.d

\* C12: once the snapshot is pushed, every asset that carries a balance has
\* next year, before any transaction, a ledger with the same balance and,
\* within 10^-9, the same acb as its ledger of this year.
C12_CarryForwardRoundTrip ==
    writableEnded =>
        \A asset \in DOMAIN ledgerByAsset :
            CarriesBalance(ledgerByAsset[asset]) =>
                /\ asset \in DOMAIN NextYearLedgers
                /\ NextYearLedgers[asset].balance = RI(ledgerByAsset[asset].balance)
                /\ WithinTolerance(NextYearLedgers[asset].acb, ledgerByAsset[asset].acb)

---------------------------------------------------------------------------
\* The balance and the acb given for the asset on the command line.
GivenForward(asset) == ParseInit(opts.init).entries[asset]
GivenAssets == DOMAIN ParseInit(opts.init).entries
WellFormed(forward) == Finite(forward.balance) /\ Finite(forward.acb)

\* The transaction is the first that reads or writes the ledger of the asset.
FirstOf(asset, i) ==
    /\ trades[i].asset = asset
    /\ \A j \in 1..(i - 1) : trades[j].asset # asset /\ trades[j].feeAsset # asset

\* C13: for every asset given well-formed to --init the calculate stream
\* starts with the ledger {balance, acb, dispositions: []} of the numbers
\* given, and the first transaction of the asset leaves the balance given
\* plus its amount, less a fee paid in the asset.
C13_InitSeedsTheLedgers ==
    \A asset \in GivenAssets :
        WellFormed(GivenForward(asset)) =>
            /\ trades = << >> =>
                 /\ asset \in DOMAIN ledgerByAsset
                 /\ RI(ledgerByAsset[asset].balance) = GivenForward(asset).balance
                 /\ ledgerByAsset[asset].acb = GivenForward(asset).acb
                 /\ ledgerByAsset[asset].dispositions = << >>
            /\ \A i \in 1..Len(trades) :
                 FirstOf(asset, i) =>
                     RI(trades[i].balance) =
                        RAdd(GivenForward(asset).balance,
                             RI(trades[i].amount
                                - IF FeeInOwnAsset(trades[i]) THEN trades[i].feeAmount ELSE 0))

---------------------------------------------------------------------------
\* The stream is empty before its first transaction, accumulating until
\* _final has run and finalized from then on.
Phase ==
    IF writableEnded THEN "Finalized"
    ELSE IF trades = << >> THEN "Empty" ELSE "Accumulating"

\* C14: a step never moves back from Accumulating to Empty nor out of
\* Finalized; the step into Finalized, and no other, pushes the snapshot, so
\* that a finalized stream has pushed exactly one; and once the snapshot is
\* pushed no transaction is applied: the trades and the ledgers stay as
\* they are.
C14_SnapshotOnceAfterEveryTransaction ==
    [][ /\ (Phase = "Accumulating" => Phase' # "Empty")
        /\ (Phase = "Finalized" => Phase' = "Finalized")
        /\ (Phase # "Finalized" /\ Phase' = "Finalized"
              => Len(pushed) = 0 /\ Len(pushed') = 1 /\ trades' = trades)
        /\ (Phase' # "Finalized" => pushed' = << >>)
        /\ (Phase = "Finalized"
              => /\ Len(pushed) = 1
                 /\ pushed' = pushed
                 /\ trades' = trades
                 /\ ledgerByAsset' = ledgerByAsset) ]_vars

\* The snapshot has been pushed after two transactions were applied.
C14_Witness ==
    /\ Phase = "Finalized"
    /\ Len(pushed) = 1
    /\ Len(trades) = 2
    /\ \A asset \in DOMAIN ledgerByAsset :
         "aggregateDisposition" \in DOMAIN ledgerByAsset[asset]

---------------------------------------------------------------------------
\* Neither the history nor the web gives the asset a value.
NoValue(asset) == asset # "CAD" /\ asset \notin DOMAIN History

\* The value of the trade or the value of its fee cannot be resolved.
Unresolvable(trade) ==
    \/ NoValue(trade.baseAsset)
    \/ /\ trade.feeAsset \notin {trade.baseAsset, trade.quoteAsset}
       /\ NoValue(trade.feeAsset)

\* The trade is written to the trade value stream.
Retains(trade) ==
    \/ opts.assets = << >>
    \/ \E i \in DOMAIN opts.assets :
         NormalizeCode(opts.assets[i]) \in {trade.baseAsset, trade.quoteAsset}

\* C15: when a trade written to the trade value stream has a value or a fee
\* value that cannot be resolved, no snapshot is pushed and every
\* transaction applied, or on its way to the calculate stream, comes from
\* an earlier trade: the trade is not passed over for the trades after it.
C15_UnresolvedValueAbortsTheRun ==
    \A j \in 1..Len(source) :
        Retains(source[j]) /\ Unresolvable(source[j]) =>
            /\ pushed = << >>
            /\ ~writableEnded
            /\ \A i \in 1..Len(trades) : trades[i].time < j
            /\ \A i \in 1..Len(transactions) : transactions[i].time < j
            /\ \A i \in 1..Len(valued) : valued[i].time < j

\* The first trade has no value, the trade value stream has thrown on it,
\* and the second trade, which has a value, waits in front of the stream.
C15_Witness ==
    /\ Len(source) = 2
    /\ Unresolvable(source[1]) /\ Retains(source[1])
    /\ ~Unresolvable(source[2]) /\ Retains(source[2])
    /\ rejected
    /\ filtered = << source[2] >>
    /\ trades = << >>
    /\ pushed = << >>

---------------------------------------------------------------------------
\* The transactions of the asset that left its balance below the tolerance.
Crossings(asset) ==
    { i \in 1..Len(trades) : trades[i].asset = asset /\ trades[i].balance < 0 }

CrossingAt(i) == [balance |-> trades[i].balance, time |-> trades[i].time]

---------------------------------------------------------------------------
\* A specification given to --init lacks the balance or the acb, or holds
\* one that is not a number.
Malformed(init) ==
    \E i \in DOMAIN init :
        init[i].balance.kind # "decimal" \/ init[i].acb.kind # "decimal"

\* C17: with a malformed value of --init the run does not start: no trade
\* is valued, no transaction is applied and no snapshot is pushed.
C17_MalformedInitStopsTheRun ==
    Malformed(opts.init) =>
        /\ valued = << >>
        /\ transactions = << >>
        /\ trades = << >>
        /\ pushed = << >>

---------------------------------------------------------------------------
\* The two codes differ at most by the case of their letters.
SameButCase(a, b) == ToUpperCase(a) = ToUpperCase(b)

\* C18: an asset given to --init and the asset of a ledger that differ at
\* most by case are one key, and no two ledgers have keys that differ only
\* by case.
C18_AssetsCompareCaseNormalized ==
    /\ \A given \in GivenAssets : \A asset \in DOMAIN ledgerByAsset :
         SameButCase(given, asset) => given = asset
    /\ \A a \in DOMAIN ledgerByAsset : \A b \in DOMAIN ledgerByAsset :
         SameButCase(a, b) => a = b

---------------------------------------------------------------------------
\* The assets to retain, none when --assets is not given.
Filter == { NormalizeCode(opts.assets[i]) : i \in DOMAIN opts.assets }

\* The trade the transaction comes from: the one of its time.
TradeOf(chunk) == source[chunk.time]

\* C19 as claimed: with a filter every transaction applied names an asset
\* of the filter, and so does every ledger.
C19_AsClaimed ==
    opts.assets # << >> =>
        /\ \A i \in 1..Len(trades) : trades[i].asset \in Filter
        /\ DOMAIN ledgerByAsset \subseteq Filter

\* C19: with a filter only the trades whose base or quote asset is one of
\* the filter are passed on: every trade valued, every transaction applied
\* or on its way comes from such a trade and names its base or its quote
\* asset, and every ledger not given to --init is that of an asset of such
\* a trade, inside the filter or on the other side of the trade.
C19_FilterRetainsTradesOfTheAssets ==
    opts.assets # << >> =>
        LET FromRetained(chunk) ==
                /\ Retains(TradeOf(chunk))
                /\ chunk.asset \in {TradeOf(chunk).baseAsset, TradeOf(chunk).quoteAsset}
        IN  /\ \A i \in 1..Len(filtered) : Retains(filtered[i])
            /\ \A i \in 1..Len(valued) : Retains(valued[i])
            /\ \A i \in 1..Len(transactions) : FromRetained(transactions[i])
            /\ \A i \in 1..Len(trades) : FromRetained(trades[i])
            /\ \A asset \in DOMAIN ledgerByAsset \ GivenAssets :
                 \E j \in 1..Len(source) :
                    /\ Retains(source[j])
                    /\ asset \in {source[j].baseAsset, source[j].quoteAsset}

\* With the filter BTC a trade of ETH against BTC is retained and its
\* transaction of ETH is applied, while a trade of ETH against CAD is
\* dropped.
C19_Witness ==
    /\ Filter = {"BTC"}
    /\ Len(source) = 2
    /\ source[1].baseAsset = "ETH" /\ source[1].quoteAsset = "CAD"
    /\ source[2].baseAsset = "ETH" /\ source[2].quoteAsset = "BTC"
    /\ \E i \in 1..Len(trades) : trades[i].asset = "ETH" /\ trades[i].time = 2
    /\ \A i \in 1..Len(trades) : trades[i].time # 1
    /\ "ETH" \in DOMAIN ledgerByAsset

---------------------------------------------------------------------------
\* C20: no step changes forwardByAsset, which before the first transaction
\* holds the balance and the acb of every seeded ledger; a step that
\* applies a transaction appends it to the trades, once and behind those
\* applied before, and no other step changes the trades: the snapshot,
\* which hands on both, echoes the seed and lists the transactions in the
\* order applied.
C20_SnapshotEchoesSeedAndTrades ==
    [][ /\ forwardByAsset' = forwardByAsset
        /\ forwardByAsset \in ForwardSeeds
        /\ (trades = << >> /\ ~writableEnded) =>
              /\ DOMAIN ledgerByAsset = DOMAIN forwardByAsset
              /\ \A asset \in DOMAIN forwardByAsset :
                   Numbers(ledgerByAsset[asset]) =
                      [acb |-> forwardByAsset[asset].acb,
                       balance |-> forwardByAsset[asset].balance]
        /\ (ledgerByAsset' # ledgerByAsset /\ ~writableEnded') =>
              /\ Applied
              /\ SubSeq(trades', 1, Len(trades)) = trades
              /\ tx.balance = ledgerByAsset'[tx.asset].balance
        /\ (trades' # trades) =>
              /\ Applied
              /\ SubSeq(trades', 1, Len(trades)) = trades
              /\ tx.balance = ledgerByAsset'[tx.asset].balance
              /\ pushed' = pushed
        /\ (pushed' # pushed) => trades' = trades ]_vars

\* The snapshot is pushed after two transactions of the seeded asset: the
\* ledger has moved away from the seed, forwardByAsset has not.
C20_Witness ==
    /\ Len(pushed) = 1
    /\ forwardByAsset = "BTC" :> [balance |-> 2, acb |-> RI(10)]
    /\ Len(trades) = 2
    /\ trades[1].asset = "BTC" /\ trades[2].asset = "BTC"
    /\ trades[1].time = 1 /\ trades[2].time = 2
    /\ ledgerByAsset["BTC"].balance # 2
    /\ ledgerByAsset["BTC"].acb # RI(10)

---------------------------------------------------------------------------
\* C21: after every transaction every asset whose ledger holds a balance
\* below the tolerance is recorded as having had a negative balance, whether
\* the balance was lowered as that of the traded asset or as that of the fee
\* asset by the fee settlement.
C21_NegativeBalancesAreRecorded ==
    \A asset \in DOMAIN ledgerByAsset :
        BelowTolerance(ledgerByAsset[asset].balance) =>
            /\ asset \in assetsWithNegativeBalance
            /\ asset \in DOMAIN negativeBalanceByAsset

---------------------------------------------------------------------------
\* C22: no step removes a ledger from the store nor alters or removes a
\* disposition: the assets with a ledger only grow and the dispositions of
\* every ledger keep what they held as a prefix; and once the snapshot is
\* pushed the ledger store it hands on is left as it is, by the format
\* stream too.
C22_LedgersAndDispositionsOnlyGrow ==
    [][ /\ DOMAIN ledgerByAsset \subseteq DOMAIN ledgerByAsset'
        /\ \A asset \in DOMAIN ledgerByAsset \cap DOMAIN ledgerByAsset' :
             LET old == ledgerByAsset[asset].dispositions
                 new == ledgerByAsset'[asset].dispositions
             IN  Len(old) <= Len(new) /\ SubSeq(new, 1, Len(old)) = old
        /\ Len(pushed) = 1 => ledgerByAsset' = ledgerByAsset ]_vars

---------------------------------------------------------------------------
\* The transactions applied so far that dispose of the asset, in the order
\* applied.
DisposalsOf(asset) ==
    LET Disposes(t) == t.asset = asset /\ t.amount < 0
    IN  SelectSeq(trades, Disposes)

\* C23: the dispositions of every ledger are, one for one and in the same
\* order, the transactions applied to its asset with a negative amount (a
\* transaction with an amount of 0 or more adds none), each with the time,
\* the amount, the value and the fee value of its transaction; the
\* transactions arriving in the order of their time, the times of the
\* dispositions of a ledger never decrease.
C23_DispositionsFollowTheDisposals ==
    \A asset \in DOMAIN ledgerByAsset :
        LET disposals == DisposalsOf(asset)
            dispositions == ledgerByAsset[asset].dispositions
        IN  /\ Len(dispositions) = Len(disposals)
            /\ \A i \in 1..Len(dispositions) :
                 /\ dispositions[i].time = disposals[i].time
                 /\ dispositions[i].amount = -disposals[i].amount
                 /\ dispositions[i].pod = disposals[i].value
                 /\ dispositions[i].oae = disposals[i].feeValue
                 /\ dispositions[i].exchange = disposals[i].exchange
            /\ \A i \in 1..Len(dispositions) : \A j \in i..Len(dispositions) :
                 dispositions[i].time <= dispositions[j].time

\* BTC was disposed of twice, of 2 units and then of 1: the ledger of BTC
\* holds the two dispositions in that order and the ledger of ETH, seeded
\* and never traded, holds none.
C23_Witness ==
    /\ Len(trades) = 2
    /\ trades[1].asset = "BTC" /\ trades[1].amount = -2
    /\ trades[2].asset = "BTC" /\ trades[2].amount = -1
    /\ Len(ledgerByAsset["BTC"].dispositions) = 2
    /\ ledgerByAsset["BTC"].dispositions[1].time = 1
    /\ ledgerByAsset["BTC"].dispositions[1].amount = 2
    /\ ledgerByAsset["BTC"].dispositions[2].time = 2
    /\ "ETH" \in DOMAIN ledgerByAsset
    /\ ledgerByAsset["ETH"].dispositions = << >>

---------------------------------------------------------------------------
\* The step is one of the trade transactions stream: it takes the trade
\* `split` and pushes the transactions `emitted`.
Splits == valued # << >> /\ valued' = Tail(valued)
split == Head(valued)
emitted == SubSeq(transactions', Len(transactions) + 1, Len(transactions'))

Fiat == {"CAD", "USD"}

\* The side of a trade that is passed on: the asset and the signed amount,
\* nothing for an amount of 0 or a fiat currency.
SideOf(asset, amount) ==
    IF amount = 0 \/ asset \in Fiat THEN << >>
    ELSE << [asset |-> asset, amount |-> amount] >>

\* The asset disposed of and the asset acquired by a trade.
DisposedSide(trade) ==
    IF trade.sell THEN SideOf(trade.quoteAsset, -trade.quoteAmount)
    ELSE SideOf(trade.baseAsset, -trade.baseAmount)
AcquiredSide(trade) ==
    IF trade.sell THEN SideOf(trade.baseAsset, trade.baseAmount)
    ELSE SideOf(trade.quoteAsset, trade.quoteAmount)

\* C24: a valued trade is split into at most two transactions that share
\* its value, its time and its exchange: the side disposed of (the base
\* asset of a buy, the quote asset of a sell) with a negative amount first,
\* the side acquired with a positive amount second; a side with an amount
\* of 0 or in a fiat currency (CAD, USD) is dropped, and a trade without a
\* side left emits nothing.
C24_TradeSplitsIntoItsSides ==
    [][ Splits =>
          /\ Len(emitted) <= 2
          /\ SubSeq(transactions', 1, Len(transactions)) = transactions
          /\ \A i \in 1..Len(emitted) :
               /\ emitted[i].value = split.value
               /\ emitted[i].time = split.time
               /\ emitted[i].exchange = split.exchange
          /\ [i \in 1..Len(emitted) |->
                [asset |-> emitted[i].asset, amount |-> emitted[i].amount]]
               = DisposedSide(split) \o AcquiredSide(split)
          /\ \A i \in 1..Len(DisposedSide(split)) : emitted[i].amount < 0
          /\ \A i \in (Len(DisposedSide(split)) + 1)..Len(emitted) : emitted[i].amount > 0
      ]_vars

\* A sale of 1 ETH for 2 BTC has been split: the ETH disposed of comes
\* first, the BTC acquired second, both at the value of the trade.
C24_Witness ==
    /\ valued = << >>
    /\ source[1].baseAsset = "BTC" /\ source[1].baseAmount = 2
    /\ source[1].quoteAsset = "ETH" /\ source[1].quoteAmount = 1
    /\ source[1].sell
    /\ trades = << >>
    /\ Len(transactions) = 2
    /\ transactions[1].asset = "ETH" /\ transactions[1].amount = -1
    /\ transactions[2].asset = "BTC" /\ transactions[2].amount = 2
    /\ transactions[1].value = 6 /\ transactions[2].value = 6

---------------------------------------------------------------------------
RECURSIVE SumFeeValues(_)
SumFeeValues(chunks) ==
    IF chunks = << >> THEN 0 ELSE Head(chunks).feeValue + SumFeeValues(Tail(chunks))

\* C25: of the transactions a trade is split into, the first and no other
\* carries the fee value of the trade and the last and no other its fee
\* asset and fee amount, every other one having a fee value of 0 and no fee
\* amount: the fee values of the transactions add up to that of the trade;
\* and the calculate stream settles a fee for at most one transaction of a
\* trade.
C25_FeeIsCarriedOnce ==
    [][ /\ (Splits /\ emitted # << >>) =>
              /\ emitted[1].feeValue = split.feeValue
              /\ \A i \in 2..Len(emitted) : emitted[i].feeValue = 0
              /\ emitted[Len(emitted)].feeAsset = split.feeAsset
              /\ emitted[Len(emitted)].feeAmount = split.feeAmount
              /\ \A i \in 1..(Len(emitted) - 1) :
                   emitted[i].feeAsset = NoAsset /\ emitted[i].feeAmount = 0
              /\ SumFeeValues(emitted) = split.feeValue
        /\ (Applied /\ tx.feeAmount # 0) =>
              \A i \in 1..Len(trades) :
                 trades[i].time = tx.time => trades[i].feeAmount = 0
      ]_vars

\* 2 BTC were paid for 1 ETH, with a fee of 1 BTC worth 1 dollar: the BTC
\* disposed of carries the fee value, the ETH acquired the fee amount, and
\* the ledger of BTC has paid the fee once.
C25_Witness ==
    /\ Len(trades) = 2
    /\ transactions = << >>
    /\ trades[1].asset = "BTC" /\ trades[1].amount = -2
    /\ trades[1].feeValue = 1 /\ trades[1].feeAmount = 0
    /\ trades[2].asset = "ETH" /\ trades[2].amount = 1
    /\ trades[2].feeValue = 0
    /\ trades[2].feeAsset = "BTC" /\ trades[2].feeAmount = 1
    /\ ledgerByAsset["BTC"].balance = -3

---------------------------------------------------------------------------
\* C26: every transaction of the trades carries the balance and the
\* adjusted cost base of the ledger of its asset as they are once the
\* transaction is applied, the values the table of the trades prints.
C26_TradesCarryBalanceAndAcb ==
    [][ Applied =>
          /\ tx.balance = ledgerByAsset'[tx.asset].balance
          /\ "acb" \in DOMAIN tx
          /\ tx.acb = ledgerByAsset'[tx.asset].acb
          /\ TradeRows(<<tx>>)[1].balance = FormatAmount(ledgerByAsset'[tx.asset].balance)
          /\ TradeRows(<<tx>>)[1].acb = FormatValue(ledgerByAsset'[tx.asset].acb)
      ]_vars

---------------------------------------------------------------------------
\* The records of the series looked up, and the time looked up.
looked == lookup.history
at == lookup.time

\* The price on the line through the open prices of two records.
Interpolated(earlier, later, time) ==
    RAdd(RI(earlier.open),
         RMul(RI(later.open - earlier.open),
              RDiv(RI(time - earlier.time), RI(later.time - earlier.time))))

\* C27: looking up a price in a series sorted by time never fails: a time
\* later than every record gives the close of the last record, a time not
\* later than the first record gives no value (NaN), and a time between two
\* records that follow each other gives the price on the line through their
\* open prices, the open of the earlier record at its time and the open of
\* the later record at its time.
C27_LookupInterpolatesTheOpens ==
    (lookup # NoLookup /\ looked # << >> /\ (lookup.returned \/ lookup.thrown)) =>
        /\ ~lookup.thrown
        /\ at > looked[Len(looked)].time =>
              lookup.value = RI(looked[Len(looked)].close)
        /\ at <= looked[1].time => IsNaN(lookup.value)
        /\ \A i \in 1..(Len(looked) - 1) :
              (looked[i].time < at /\ at <= looked[i + 1].time) =>
                  lookup.value = Interpolated(looked[i], looked[i + 1], at)

---------------------------------------------------------------------------
\* The rows of the ledger written so far that are rows of a trade.
TradeRecords(records) == { i \in DOMAIN records : records[i].type = "trade" }

\* The step writes a row to the trade parse stream; `row` is that row.
Parses == Len(tradeParse'.records) = Len(tradeParse.records) + 1
row == tradeParse'.records[Len(tradeParse'.records)]

\* C28: the parser of Kraken pairs the rows two by two.  After every row at
\* most one row is pending; a trade is pushed exactly when the row of a
\* trade arrives while one is pending, made of these two rows, and nothing
\* is pending then; a row that is no trade discards the pending row and
\* pushes nothing.  So the trades pushed and the row pending take each its
\* own rows of a trade: twice the trades pushed, and the row pending, are
\* no more than the rows of a trade, and no two trades share their time.
C28_KrakenPairsRowsTwoByTwo ==
    [][ Parses =>
          LET pending == tradeParse.tradeChunks
              pushes == Len(tradeParse'.pushed) = Len(tradeParse.pushed) + 1
              trade == tradeParse'.pushed[Len(tradeParse'.pushed)]
          IN  /\ Len(pending) <= 1
              /\ Len(tradeParse'.tradeChunks) <= 1
              /\ pushes \/ tradeParse'.pushed = tradeParse.pushed
              /\ pushes <=> (row.type = "trade" /\ Len(pending) = 1)
              /\ pushes =>
                    /\ tradeParse'.tradeChunks = << >>
                    /\ SubSeq(tradeParse'.pushed, 1, Len(tradeParse.pushed)) = tradeParse.pushed
                    /\ {trade.baseAsset, trade.quoteAsset} =
                          {pending[1].asset, NormalizeCode(row.asset)}
                    /\ trade.time \in {pending[1].time, row.time}
              /\ row.type # "trade" => tradeParse'.tradeChunks = << >>
              /\ (row.type = "trade" /\ pending = << >>) =>
                    /\ Len(tradeParse'.tradeChunks) = 1
                    /\ tradeParse'.tradeChunks[1].time = row.time
              /\ 2 * Len(tradeParse'.pushed) + Len(tradeParse'.tradeChunks)
                    <= Cardinality(TradeRecords(tradeParse'.records))
              /\ \A i \in DOMAIN tradeParse'.pushed : \A j \in DOMAIN tradeParse'.pushed :
                    tradeParse'.pushed[i].time = tradeParse'.pushed[j].time => i = j
      ]_vars

\* The row of a trade, the row of a deposit that discards it, then the rows
\* of a sale of ETH for BTC: one trade is pushed for three rows of a trade.
C28_Witness ==
    /\ Len(tradeParse.records) = 4
    /\ tradeParse.records[1].type = "trade"
    /\ tradeParse.records[2].type = "deposit"
    /\ tradeParse.records[3].type = "trade" /\ tradeParse.records[3].asset = "XETH"
    /\ tradeParse.records[3].amount = -1
    /\ tradeParse.records[4].type = "trade" /\ tradeParse.records[4].asset = "XXBT"
    /\ tradeParse.records[4].amount = 2
    /\ tradeParse.tradeChunks = << >>
    /\ Len(tradeParse.pushed) = 1
    /\ tradeParse.pushed[1].baseAsset = "BTC" /\ tradeParse.pushed[1].quoteAsset = "ETH"
    /\ tradeParse.pushed[1].time = 4

---------------------------------------------------------------------------
\* a <= b, for two numbers that are finite.
RLeq(a, b) == Finite(a) /\ Finite(b) /\ a.n * b.d <= b.n * a.d

\* No ledger of the store holds a negative balance or a negative acb.
NonNegative(store) ==
    \A asset \in DOMAIN store :
        store[asset].balance >= 0 /\ RLeq(Zero, store[asset].acb)

\* The transaction applied by the step removes more units than the ledger
\* holds at that moment, by its disposal or by the settlement of its fee.
Overdraws ==
    LET old == LedgerBefore(tx.asset)
        held == IF tx.feeAsset = tx.asset THEN old.balance + tx.amount
                ELSE IF tx.feeAsset \in DOMAIN ledgerByAsset
                THEN ledgerByAsset[tx.feeAsset].balance
                ELSE tx.feeAmount
    IN  \/ tx.amount < 0 /\ -tx.amount > old.balance
        \/ tx.feeAmount > held

\* C29: the seeds, the values and the fee values being 0 or more, the
\* ledgers start without a negative balance or acb, and a transaction that
\* removes no more units than the ledger holds at that moment, by its
\* disposal or by its fee, leaves them so; the acb of the disposition of
\* such a disposal is 0 or more and at most the acb of the ledger just
\* before.  So a run that never overdraws a ledger never holds a negative
\* balance or acb.
C29_NoOverdraftKeepsLedgersNonNegative ==
    [][ /\ (trades = << >> /\ ~writableEnded) => NonNegative(ledgerByAsset)
        /\ ( /\ Applied /\ NonNegative(ledgerByAsset) /\ ~Overdraws
             /\ tx.value >= 0 /\ tx.feeValue >= 0 ) =>
              /\ NonNegative(ledgerByAsset')
              /\ tx.amount < 0 =>
                    LET dispositions == ledgerByAsset'[tx.asset].dispositions
                        disposition == dispositions[Len(dispositions)]
                    IN  /\ RLeq(Zero, disposition.acb)
                        /\ RLeq(disposition.acb, LedgerBefore(tx.asset).acb)
      ]_vars

\* 1 BTC of the 2 seeded is disposed of for a fee of the 1 ETH seeded, then
\* the other: both ledgers end with the balance 0 and the acb 0, and each
\* disposition took half of the acb of 10.
C29_Witness ==
    /\ DOMAIN forwardByAsset = {"BTC", "ETH"}
    /\ Len(trades) = 2
    /\ trades[1].asset = "BTC" /\ trades[1].amount = -1
    /\ trades[1].feeAsset = "ETH" /\ trades[1].feeAmount = 1
    /\ trades[2].asset = "BTC" /\ trades[2].amount = -1 /\ trades[2].feeAmount = 0
    /\ Numbers(ledgerByAsset["BTC"]) = [acb |-> Zero, balance |-> 0]
    /\ Numbers(ledgerByAsset["ETH"]) = [acb |-> Zero, balance |-> 0]
    /\ ledgerByAsset["BTC"].dispositions[1].acb = RI(5)
    /\ ledgerByAsset["BTC"].dispositions[2].acb = RI(5)

---------------------------------------------------------------------------
\* The orders in which the transactions applied can be applied.
Orders ==
    { order \in [1..Len(trades) -> 1..Len(trades)] :
        \A i \in 1..Len(trades) : \A j \in 1..Len(trades) :
            order[i] = order[j] => i = j }

\* The ledger store of a stream, seeded as this one, to which the
\* transactions are written in the given order, from the k-th on.
RECURSIVE Replay(_, _, _)
Replay(store, order, k) ==
    IF k > Len(trades) THEN store
    ELSE Replay(ApplyTransaction(store, trades[order[k]]), order, k + 1)

\* The transactions whose fee that stream settles.
RECURSIVE SettledBy(_, _, _)
SettledBy(store, order, k) ==
    IF k > Len(trades) THEN {}
    ELSE LET chunk == trades[order[k]]
         IN  (IF chunk.feeAmount # 0 /\ chunk.feeAsset \in DOMAIN store \cup {chunk.asset}
              THEN {order[k]} ELSE {})
             \cup SettledBy(ApplyTransaction(store, chunk), order, k + 1)

Seeded == ForwardLedgers(forwardByAsset)
Balances(store) == [asset \in DOMAIN store |-> store[asset].balance]
AsApplied == [i \in 1..Len(trades) |-> i]

\* C30 as claimed: the transactions applied in any other order, to the same
\* seed, leave every asset with the same final balance.
C30_AsClaimed ==
    writableEnded =>
        \A order \in Orders :
            Balances(Replay(Seeded, order, 1)) = Balances(ledgerByAsset)

\* C30: the final balance of every asset depends on the seed, on the
\* transactions applied and on which of their fees are settled, not
\* otherwise on their order: applied to the same seed in any order that
\* settles the fees of the same transactions, they leave every asset with
\* the same final balance.
C30_BalanceIsOrderIndependentButForFees ==
    writableEnded =>
        \A order \in Orders :
            SettledBy(Seeded, order, 1) = SettledBy(Seeded, AsApplied, 1) =>
                Balances(Replay(Seeded, order, 1)) = Balances(ledgerByAsset)

\* 1 BTC is acquired on top of the 2 seeded and 1 BTC is disposed of: the
\* other order leaves the same balance of 2 and another acb.
C30_Witness ==
    /\ writableEnded
    /\ Len(trades) = 2
    /\ forwardByAsset = "BTC" :> [balance |-> 2, acb |-> RI(10)]
    /\ trades[1].asset = "BTC" /\ trades[1].amount = 1 /\ trades[1].feeAmount = 0
    /\ trades[2].asset = "BTC" /\ trades[2].amount = -1 /\ trades[2].feeAmount = 0
    /\ ledgerByAsset["BTC"].balance = 2
    /\ Replay(Seeded, <<2, 1>>, 1)["BTC"].balance = 2
    /\ Replay(Seeded, <<2, 1>>, 1)["BTC"].acb # ledgerByAsset["BTC"].acb

=============================================================================
